---- MODULE Spec2Model ----
(***************************************************************************)
(* Model of MultipleAssetsbot.py: a spot/futures arbitrage bot.            *)
(*                                                                         *)
(* Three asyncio activities share the dictionaries prices and              *)
(* open_positions: the socket handlers (process_message), the monitoring   *)
(* loop (monitor_positions) and the decision loop (the while loop of       *)
(* main).  asyncio schedules cooperatively, so one action of the model is  *)
(* the code a task runs from one await to the next.  The retry loops of    *)
(* get_balance, place_spot_order and place_futures_order touch no shared   *)
(* state between their attempts, so in Spec a whole call is one action     *)
(* that runs the loop (RetryLoop) over the answers the exchange gives to   *)
(* its attempts; SpecCalls runs the same loop body (RetryStep) one attempt *)
(* per action.                                                             *)
(*                                                                         *)
(* Numbers.  Prices are floats in the code; the model uses integer prices  *)
(* and exact arithmetic.  A potential profit is kept multiplied by SCALE   *)
(* (the fee rates are 75/100000 and 50/100000), a percentage threshold     *)
(* profit >= s * (P / 100) is compared as 100 * profit >= s * P, and a     *)
(* quantity usdt / price is kept as the pair <<usdt, price>>.              *)
(***************************************************************************)
EXTENDS Integers, Sequences, FiniteSets, TLC

\* ------------------------------------------------------------ configuration
MAX_RETRIES == 5
SCALE == 100000
SPOT_FEE_RATE == 75
FUTURES_FEE_RATE == 50
STOP_LOSS_PERCENTAGE == 1
TAKE_PROFIT_PERCENTAGE == 2

\* ------------------------------------------------------------ environment
\* tradable_pairs, in the iteration order of the prices dictionary
SymbolOrder == <<"AAA", "BBB">>
Symbols == {SymbolOrder[i] : i \in 1..Len(SymbolOrder)}
\* trade prices the two streams deliver (all positive)
SpotTicks == [AAA |-> {1000, 1001}, BBB |-> {2000}]
FuturesTicks == [AAA |-> {1001, 1061, 1062}, BBB |-> {2062}]
\* free balances the exchange reports
UsdtBalances == {0, 2000}
BtcBalances == {0, 2}
\* what one exchange call can do: answer with a value ("ok"), raise
\* BinanceAPIException or BinanceOrderException ("api"), raise requests'
\* RequestException ("req")
Errors == {"api", "req"}
Responses(values) ==
    {[kind |-> "ok", val |-> v] : v \in values}
        \cup {[kind |-> e, val |-> 0] : e \in Errors}
\* the order an order call answers with
Orders == {1}
\* the longest run of consecutive errors the exchange answers one call with
MaxFailures == 6

\* Python's None / a present value, for optional values
None == {}
Some(v) == {v}
Val(o) == CHOOSE v \in o : TRUE

\* prices, open_positions: the two global dictionaries (lines 32, 34)
\* main: the frame of the decision loop; mon: the frame of monitor_positions
\* last_close: history of the close_position call that returned in the
\*   monitoring loop's latest step (the code discards the two orders)
\* call: one call of get_balance / place_..._order taken attempt by attempt
\*   (SpecCalls)
VARIABLES prices, open_positions, main, mon, last_close, call

vars == <<prices, open_positions, main, mon, last_close, call>>

\* ------------------------------------------------------------ pure functions
calculate_spread(spot_price, futures_price) == futures_price - spot_price

\* usdt_balance / btc_price, as the exact fraction <<numerator, denominator>>
calculate_quantity(usdt_balance, btc_price) == <<usdt_balance, btc_price>>

\* mutant of LessThanQuantity: the comparison turned round
MoreThanQuantity(balance, quantity) == balance * quantity[2] > quantity[1]

\* balance < quantity, for a quantity kept as a fraction
LessThanQuantity(balance, quantity) == balance * quantity[2] < quantity[1]

\* spread - (spot_fee + futures_fee), multiplied by SCALE
potential_profit_of(spot_price, futures_price) ==
    SCALE * calculate_spread(spot_price, futures_price)
        - (spot_price * SPOT_FEE_RATE + futures_price * FUTURES_FEE_RATE)

\* ------------------------------------------------------------ orders
\* the arguments of a call of place_spot_order / place_futures_order
NoReq == [fn |-> "", symbol |-> "", quantity |-> <<0, 1>>, side |-> ""]
Req(fn, symbol, quantity, side) ==
    [fn |-> fn, symbol |-> symbol, quantity |-> quantity, side |-> side]

\* mutant of close_position: the futures leg sells too
close_position_both_sell(symbol, quantity) ==
    <<Req("place_spot_order", symbol, quantity, "SELL"),
      Req("place_futures_order", symbol, quantity, "SELL")>>

\* close_position(client, symbol, quantity): the two calls it makes, in order
close_position(symbol, quantity) ==
    <<Req("place_spot_order", symbol, quantity, "SELL"),
      Req("place_futures_order", symbol, quantity, "BUY")>>

\* mutant of OpeningOrders: the futures leg is sized by the futures price
OpeningOrdersFuturesPriced(m) ==
    <<Req("place_spot_order", m.best_pair, m.quantity, "BUY"),
      Req("place_futures_order", m.best_pair,
          <<Val(m.usdt_balance), m.futures_price>>, "SELL")>>

\* lines 222-223: the two opening calls of a decision cycle, in order, from
\* the cycle's frame
OpeningOrders(m) ==
    <<Req("place_spot_order", m.best_pair, m.quantity, "BUY"),
      Req("place_futures_order", m.best_pair, m.quantity, "SELL")>>

\* ------------------------------------------------------------ dictionaries
\* open_positions is an insertion-ordered dictionary: a sequence of entries
\* [symbol, quantity, initial_spread], looked up by symbol.
NoEntry == [symbol |-> "", quantity |-> <<0, 1>>, initial_spread |-> 0]

HasKey(d, k) == \E i \in 1..Len(d) : d[i].symbol = k

RECURSIVE DictDel(_, _)
DictDel(d, k) ==
    IF d = <<>> THEN <<>>
    ELSE IF Head(d).symbol = k THEN DictDel(Tail(d), k)
    ELSE <<Head(d)>> \o DictDel(Tail(d), k)

\* mutant of DictSet: a list that is appended to, whatever it holds
DictSetAppend(d, e) == Append(d, e)

\* d[k] = v: an existing key keeps its place, a new key goes last
DictSet(d, e) ==
    IF HasKey(d, e.symbol)
    THEN [i \in 1..Len(d) |-> IF d[i].symbol = e.symbol THEN e ELSE d[i]]
    ELSE Append(d, e)

\* ------------------------------------------------------------ retry loops
\* One pass of "for _ in range(MAX_RETRIES): try ... except caught", given the
\* loop index and what the exchange call did: "ret" with a value (the call
\* answered), "retry" (caught, more attempts left), "ret" with None (caught on
\* the last attempt), "raise" (an exception the except clause does not name).
RetryStep(attempt, resp, caught) ==
    IF resp.kind = "ok" THEN [st |-> "ret", val |-> Some(resp.val)]
    ELSE IF resp.kind \in caught
         THEN IF attempt + 1 < MAX_RETRIES
              THEN [st |-> "retry", val |-> None]
              ELSE [st |-> "ret", val |-> None]
         ELSE [st |-> "raise", val |-> None]

get_balance(attempt, resp) == RetryStep(attempt, resp, {"api", "req"})

\* mutant of place_spot_order: one attempt too many ("<=" for "<" in the bound)
place_spot_order_one_more(attempt, resp) ==
    IF resp.kind = "api" /\ attempt + 1 = MAX_RETRIES
    THEN [st |-> "retry", val |-> None]
    ELSE RetryStep(attempt, resp, {"api"})

place_spot_order(attempt, resp) == RetryStep(attempt, resp, {"api"})
place_futures_order(attempt, resp) == RetryStep(attempt, resp, {"api"})

\* the loop body of the function named fn
StepOf(fn, attempt, resp) ==
    IF fn = "get_balance" THEN get_balance(attempt, resp)
    ELSE IF fn = "place_spot_order" THEN place_spot_order(attempt, resp)
    ELSE place_futures_order(attempt, resp)

\* the whole for loop, from the given index: script[i] is what the exchange
\* does at the i-th attempt
RECURSIVE RetryLoop(_, _, _)
RetryLoop(fn, attempt, script) ==
    LET r == StepOf(fn, attempt, script[attempt + 1])
    IN IF r.st = "retry" THEN RetryLoop(fn, attempt + 1, script) ELSE r

\* what the exchange does at the attempts of one call: k API errors in a row
\* (k up to MaxFailures), then the same response to every later attempt
Script(k, then) ==
    [i \in 1..MaxFailures + 1 |-> IF i <= k THEN [kind |-> "api", val |-> 0] ELSE then]
Scripts(values) ==
    {Script(k, then) : k \in 0..MaxFailures, then \in Responses(values)}

\* every way a whole call can end, over the scripts
CallResults(fn, values) == {RetryLoop(fn, 0, script) : script \in Scripts(values)}
UsdtBalanceResults == CallResults("get_balance", UsdtBalances)
BtcBalanceResults == CallResults("get_balance", BtcBalances)
SpotOrderResults == CallResults("place_spot_order", Orders)
FuturesOrderResults == CallResults("place_futures_order", Orders)

\* ------------------------------------------------------------ price book
EmptyEntry == [spot |-> None, futures |-> None, potential_profit |-> None]

\* mutant of process_message: potential_profit is computed from the prices
\* held before the tick is stored
process_message_stale(entry, msg_type, p) ==
    LET e0 == IF entry.spot # None /\ entry.futures # None
              THEN [entry EXCEPT !.potential_profit =
                       Some(potential_profit_of(Val(entry.spot), Val(entry.futures)))]
              ELSE entry
    IN IF msg_type = "spot" THEN [e0 EXCEPT !.spot = Some(p)]
       ELSE [e0 EXCEPT !.futures = Some(p)]

\* mutant of process_message: potential_profit is the spread, fees left out
process_message_no_fees(entry, msg_type, p) ==
    LET e1 == IF msg_type = "spot" THEN [entry EXCEPT !.spot = Some(p)]
              ELSE [entry EXCEPT !.futures = Some(p)]
    IN IF e1.spot # None /\ e1.futures # None
       THEN [e1 EXCEPT !.potential_profit =
                Some(SCALE * calculate_spread(Val(e1.spot), Val(e1.futures)))]
       ELSE e1

\* mutant of process_message: a missing side defaults to the tick's price
\* (".get('spot', price)"), so potential_profit is computed from one side
process_message_eager(entry, msg_type, p) ==
    LET e1 == IF msg_type = "spot" THEN [entry EXCEPT !.spot = Some(p)]
              ELSE [entry EXCEPT !.futures = Some(p)]
        spot_price == IF e1.spot = None THEN p ELSE Val(e1.spot)
        futures_price == IF e1.futures = None THEN p ELSE Val(e1.futures)
    IN [e1 EXCEPT !.potential_profit =
           Some(potential_profit_of(spot_price, futures_price))]

\* process_message: store the tick, then recompute potential_profit when both
\* sides are present
process_message(entry, msg_type, p) ==
    LET e1 == IF msg_type = "spot" THEN [entry EXCEPT !.spot = Some(p)]
              ELSE [entry EXCEPT !.futures = Some(p)]
    IN IF e1.spot # None /\ e1.futures # None
       THEN [e1 EXCEPT !.potential_profit =
                Some(potential_profit_of(Val(e1.spot), Val(e1.futures)))]
       ELSE e1

\* ------------------------------------------------------------ decision loop
\* the frame of main's while loop between two awaits; req is the order call
\* in flight
MainIdle == [pc |-> "rank", best_pair |-> "", spot_price |-> 0,
             futures_price |-> 0, usdt_balance |-> None, btc_balance |-> None,
             quantity |-> <<0, 1>>, req |-> NoReq,
             spot_order |-> "unset", futures_order |-> "unset"]

\* an exception left the loop: main() has ended
MainDead == [MainIdle EXCEPT !.pc = "dead"]

\* lines 190-197: the scan for the best pair, over the symbols in order
RECURSIVE BestFrom(_, _, _, _)
BestFrom(i, pr, best_pair, best_profit) ==
    IF i > Len(SymbolOrder) THEN [pair |-> best_pair, profit |-> best_profit]
    ELSE LET data == pr[SymbolOrder[i]]
             potential_profit == IF data.potential_profit = None THEN 0
                                 ELSE Val(data.potential_profit)
         IN IF potential_profit > best_profit
            THEN BestFrom(i + 1, pr, SymbolOrder[i], potential_profit)
            ELSE BestFrom(i + 1, pr, best_pair, best_profit)

\* mutant of Best: best_profit is not updated, so the last symbol with a
\* positive potential_profit wins
RECURSIVE LastPositiveFrom(_, _, _)
LastPositiveFrom(i, pr, best) ==
    IF i > Len(SymbolOrder) THEN best
    ELSE LET data == pr[SymbolOrder[i]]
             potential_profit == IF data.potential_profit = None THEN 0
                                 ELSE Val(data.potential_profit)
         IN IF potential_profit > 0
            THEN LastPositiveFrom(i + 1, pr,
                     [pair |-> SymbolOrder[i], profit |-> potential_profit])
            ELSE LastPositiveFrom(i + 1, pr, best)
BestLastPositive(pr) == LastPositiveFrom(1, pr, [pair |-> "", profit |-> 0])

Best(pr) == BestFrom(1, pr, "", 0)

\* ------------------------------------------------------------ monitoring loop
\* the frame of monitor_positions between two awaits; req is the order call
\* in flight
MonIdle == [pc |-> "sleep", items |-> <<>>, cur |-> NoEntry, profit |-> 0,
            branch |-> "", req |-> NoReq, spot_leg |-> "unset"]

\* an exception left the loop: the monitor_positions task has ended
MonDead == [MonIdle EXCEPT !.pc = "dead"]

NoClose == [symbol |-> "", spot |-> "unset", futures |-> "unset"]

\* mutant of TakeProfitReached: the comparison turned round
TakeProfitAtOrBelow(profit, initial_spread) ==
    100 * profit <= initial_spread * TAKE_PROFIT_PERCENTAGE

\* mutant of TakeProfitReached: the percentage taken as a factor (no / 100)
TakeProfitNoPercent(profit, initial_spread) ==
    profit >= initial_spread * TAKE_PROFIT_PERCENTAGE

TakeProfitReached(profit, initial_spread) ==
    100 * profit >= initial_spread * TAKE_PROFIT_PERCENTAGE

\* mutant of StopLossReached: the stop-loss as "the position is at a loss"
StopLossBelowZero(profit, initial_spread) == profit < 0

\* mutant of StopLossReached: the threshold taken as a loss (negated)
StopLossAtLoss(profit, initial_spread) ==
    100 * profit <= -(initial_spread * STOP_LOSS_PERCENTAGE)

StopLossReached(profit, initial_spread) ==
    100 * profit <= initial_spread * STOP_LOSS_PERCENTAGE

\* lines 129-150, from the head of the for loop to the next await: entries
\* that trigger nothing are passed over, the first one that triggers starts
\* close_position (its first order is in flight), and the end of the list
\* reaches the sleep at line 152.
RECURSIVE Scan(_, _)
Scan(items, pr) ==
    IF items = <<>> THEN MonIdle
    ELSE LET position == Head(items)
             spot_price == pr[position.symbol].spot
             futures_price == pr[position.symbol].futures
         IN IF spot_price = None \/ futures_price = None
            THEN Scan(Tail(items), pr)
            ELSE LET initial_spread == position.initial_spread
                     profit == calculate_spread(Val(spot_price), Val(futures_price))
                                 - initial_spread
                     closing == [pc |-> "close_spot", items |-> Tail(items),
                                 cur |-> position, profit |-> profit,
                                 branch |-> "",
                                 req |-> close_position(position.symbol,
                                                        position.quantity)[1],
                                 spot_leg |-> "unset"]
                 IN IF TakeProfitReached(profit, initial_spread)
                    THEN [closing EXCEPT !.branch = "tp"]
                    ELSE IF StopLossReached(profit, initial_spread)
                    THEN [closing EXCEPT !.branch = "sl"]
                    ELSE Scan(Tail(items), pr)


\* ------------------------------------------------------------ initial state
\* call, when no call is being taken attempt by attempt
NoCall == [fn |-> "", arg |-> "", side |-> "", st |-> "idle", attempt |-> 0,
           calls |-> 0, val |-> None]

Init ==
    /\ prices = [s \in Symbols |-> EmptyEntry]
    /\ open_positions = <<>>
    /\ main = MainIdle
    /\ mon = MonIdle
    /\ last_close = NoClose
    /\ call = NoCall

\* main() raising ends run_until_complete and with it the process
Running == main.pc # "dead"

\* what an order call returned: the order, or None
Returned(r) == IF r.val = None THEN "None" ELSE "order"

\* ------------------------------------------------------------ socket handlers
\* handle_socket: one message of one stream (lines 181-182)
Tick(symbol, msg_type, p) ==
    /\ Running
    /\ prices' = [prices EXCEPT ![symbol] = process_message(@, msg_type, p)]
    /\ UNCHANGED <<open_positions, main, mon, last_close, call>>

SpotTick == \E symbol \in Symbols : \E p \in SpotTicks[symbol] : Tick(symbol, "spot", p)

FuturesTick ==
    \E symbol \in Symbols : \E p \in FuturesTicks[symbol] : Tick(symbol, "futures", p)

\* ------------------------------------------------------------ decision loop
\* the cooldown sleeps of lines 209, 215, 236, 238: the cycle's pair, balances
\* and orders stay in the frame, the other locals (no later line reads them)
\* are cleared
Cooldown(m) == [m EXCEPT !.pc = "rank", !.spot_price = 0, !.futures_price = 0,
                         !.quantity = <<0, 1>>, !.req = NoReq]

\* lines 190-206: rank, read the pair's prices, call get_balance('USDT')
MainRank ==
    /\ main.pc = "rank"
    /\ LET best == Best(prices)
       IN main' = IF best.pair # "" /\ best.profit > 0
                  THEN [MainIdle EXCEPT !.pc = "usdt", !.best_pair = best.pair,
                            !.spot_price = Val(prices[best.pair].spot),
                            !.futures_price = Val(prices[best.pair].futures)]
                  ELSE MainIdle
    /\ UNCHANGED <<prices, open_positions, mon, last_close, call>>

\* lines 206-212: get_balance('USDT') returns; the balance test; then either
\* the cooldown or the call of get_balance('BTC')
MainUsdtBalance ==
    /\ main.pc = "usdt"
    /\ \E r \in UsdtBalanceResults :
         LET usdt_balance == r.val
         IN main' =
              IF r.st = "raise" THEN MainDead
              ELSE IF usdt_balance = None \/ Val(usdt_balance) < main.spot_price
                   THEN Cooldown([main EXCEPT !.usdt_balance = usdt_balance])
                   ELSE [main EXCEPT !.pc = "btc",
                                     !.usdt_balance = usdt_balance]
    /\ UNCHANGED <<prices, open_positions, mon, last_close, call>>

\* lines 212-222: get_balance('BTC') returns; the balance test; then either
\* the cooldown or the quantity and the call of place_spot_order
MainBtcBalance ==
    /\ main.pc = "btc"
    /\ \E r \in BtcBalanceResults :
         LET btc_balance == r.val
             quantity == calculate_quantity(Val(main.usdt_balance), main.spot_price)
             m == [main EXCEPT !.btc_balance = btc_balance, !.quantity = quantity]
         IN main' =
              IF r.st = "raise" THEN MainDead
              ELSE IF btc_balance = None
                      \/ LessThanQuantity(Val(btc_balance), quantity)
                   THEN Cooldown(m)
                   ELSE [m EXCEPT !.pc = "spot", !.req = OpeningOrders(m)[1]]
    /\ UNCHANGED <<prices, open_positions, mon, last_close, call>>

\* lines 222-223: the opening spot buy returns (or raises); then the call of
\* the opening futures sell
MainSpotOrder ==
    /\ main.pc = "spot"
    /\ \E r \in SpotOrderResults :
         main' =
              IF r.st = "raise" THEN MainDead
              ELSE [main EXCEPT !.pc = "fut", !.spot_order = Returned(r),
                                !.req = OpeningOrders(main)[2]]
    /\ UNCHANGED <<prices, open_positions, mon, last_close, call>>

\* mutant of Register: the spread is taken from the price book as it is when
\* the orders have returned
RegisterCurrentSpread(d, m) ==
    DictSet(d, [symbol |-> m.best_pair, quantity |-> m.quantity,
                initial_spread |->
                    calculate_spread(Val(prices[m.best_pair].spot),
                                     Val(prices[m.best_pair].futures))])

\* lines 229-234: open_positions[best_pair] = {...}
Register(d, m) ==
    DictSet(d, [symbol |-> m.best_pair, quantity |-> m.quantity,
                initial_spread |-> calculate_spread(m.spot_price, m.futures_price)])

\* mutant of Track: either order is enough ("or" for "and" at line 225)
TrackEitherLeg(d, m, spot_order, futures_order) ==
    IF spot_order = "order" \/ futures_order = "order" THEN Register(d, m) ELSE d

\* lines 225-234: the position is tracked when both orders are truthy
Track(d, m, spot_order, futures_order) ==
    IF spot_order = "order" /\ futures_order = "order" THEN Register(d, m) ELSE d

\* lines 223-236: the opening futures sell returns (or raises); the position
\* is tracked if both orders came back; then the cooldown
MainFuturesOrder ==
    /\ main.pc = "fut"
    /\ \E r \in FuturesOrderResults :
            IF r.st = "raise"
            THEN /\ main' = MainDead
                 /\ UNCHANGED open_positions
            ELSE /\ open_positions' =
                      Track(open_positions, main, main.spot_order, Returned(r))
                 /\ main' = Cooldown([main EXCEPT !.futures_order = Returned(r)])
    /\ UNCHANGED <<prices, mon, last_close, call>>

\* ------------------------------------------------------------ monitoring loop
\* lines 128-129 after the sleep at line 152: snapshot the dictionary and
\* run the for loop to its next await
MonitorPass ==
    /\ Running
    /\ mon.pc = "sleep"
    /\ mon' = Scan(open_positions, prices)
    /\ last_close' = NoClose
    /\ UNCHANGED <<prices, open_positions, main, call>>

\* line 120: the closing spot sell returns (or raises); then the call of the
\* closing futures buy (line 123)
MonitorCloseSpot ==
    /\ Running
    /\ mon.pc = "close_spot"
    /\ \E r \in SpotOrderResults :
         mon' =
              IF r.st = "raise" THEN MonDead
              ELSE [mon EXCEPT !.pc = "close_fut", !.spot_leg = Returned(r),
                               !.req = close_position(mon.cur.symbol,
                                                      mon.cur.quantity)[2]]
    /\ last_close' = NoClose
    /\ UNCHANGED <<prices, open_positions, main, call>>

\* mutant of AfterClose: the position is kept when the spot leg came back None
AfterCloseIfSpotFilled(d, m, pr) ==
    IF m.spot_leg = "None" THEN [d |-> d, mon |-> Scan(m.items, pr)]
    ELSE [d |-> DictDel(d, m.cur.symbol), mon |-> Scan(m.items, pr)]

\* lines 145-150 after close_position has returned: del open_positions[symbol]
\* (KeyError when the symbol is absent), then for the take-profit branch the
\* stop-loss test of line 147 with the same profit, then the rest of the list
AfterClose(d, m, pr) ==
    IF ~HasKey(d, m.cur.symbol)
    THEN [d |-> d, mon |-> MonDead]
    ELSE IF m.branch = "tp" /\ StopLossReached(m.profit, m.cur.initial_spread)
    THEN [d |-> DictDel(d, m.cur.symbol),
          mon |-> [m EXCEPT !.pc = "close_spot", !.branch = "sl",
                            !.req = close_position(m.cur.symbol, m.cur.quantity)[1],
                            !.spot_leg = "unset"]]
    ELSE [d |-> DictDel(d, m.cur.symbol), mon |-> Scan(m.items, pr)]

\* line 123: the closing futures buy returns (or raises); close_position
\* returns and the loop goes on
MonitorCloseFutures ==
    /\ Running
    /\ mon.pc = "close_fut"
    /\ \E r \in FuturesOrderResults :
            IF r.st = "raise"
            THEN /\ mon' = MonDead
                 /\ UNCHANGED open_positions
                 /\ last_close' = NoClose
            ELSE LET a == AfterClose(open_positions, mon, prices)
                 IN /\ mon' = a.mon
                    /\ open_positions' = a.d
                    /\ last_close' = [symbol |-> mon.cur.symbol,
                                      spot |-> mon.spot_leg,
                                      futures |-> Returned(r)]
    /\ UNCHANGED <<prices, main, call>>

\* ------------------------------------------------------------ one call alone
\* the calls the program makes: get_balance(asset), place_spot_order and
\* place_futures_order(symbol, side)
CallOps ==
    {[fn |-> "get_balance", arg |-> a, side |-> ""] : a \in {"USDT", "BTC"}}
        \cup {[fn |-> f, arg |-> s, side |-> sd] :
                 f \in {"place_spot_order", "place_futures_order"},
                 s \in Symbols, sd \in {"BUY", "SELL"}}

ValuesOf(c) ==
    IF c.fn # "get_balance" THEN Orders
    ELSE IF c.arg = "USDT" THEN UsdtBalances ELSE BtcBalances

\* a call is made: the loop starts at index 0, no exchange call made yet
CallStart ==
    /\ call.st # "running"
    /\ \E op \in CallOps :
         call' = [NoCall EXCEPT !.fn = op.fn, !.arg = op.arg, !.side = op.side,
                                !.st = "running"]
    /\ UNCHANGED <<prices, open_positions, main, mon, last_close>>

\* one iteration of the for loop: one exchange call and its outcome
CallAttempt ==
    /\ call.st = "running"
    /\ \E resp \in Responses(ValuesOf(call)) :
         LET r == StepOf(call.fn, call.attempt, resp)
         IN call' = [call EXCEPT
                       !.calls = @ + 1,
                       !.attempt = IF r.st = "retry" THEN @ + 1 ELSE @,
                       !.st = IF r.st = "retry" THEN "running"
                              ELSE IF r.st = "raise" THEN "raised"
                              ELSE "returned",
                       !.val = r.val]
    /\ UNCHANGED <<prices, open_positions, main, mon, last_close>>

NextCalls == CallStart \/ CallAttempt

SpecCalls == Init /\ [][NextCalls]_vars

Next ==
    \/ SpotTick
    \/ FuturesTick
    \/ MainRank
    \/ MainUsdtBalance
    \/ MainBtcBalance
    \/ MainSpotOrder
    \/ MainFuturesOrder
    \/ MonitorPass
    \/ MonitorCloseSpot
    \/ MonitorCloseFutures

Spec == Init /\ [][Next]_vars

\* ------------------------------------------------------------ properties
\* the entry of symbol k in dictionary d
EntryOf(d, k) == d[CHOOSE i \in 1..Len(d) : d[i].symbol = k]
EntriesOf(d) == {d[i] : i \in 1..Len(d)}

\* a decision cycle ends in this step, after both opening legs have returned
CycleEnds == main.pc = "fut" /\ main'.pc = "rank"

\* C1: an entry is put into (or changed in) open_positions only by the step
\* that ends a decision cycle whose spot buy and futures sell both returned an
\* order, and only for that cycle's pair; a cycle in which either leg returned
\* None leaves open_positions as it was, even when the other leg executed.
C1_PositionOnlyIfBothLegs ==
    [][/\ \A e \in EntriesOf(open_positions') \ EntriesOf(open_positions) :
             /\ CycleEnds
             /\ main'.spot_order = "order" /\ main'.futures_order = "order"
             /\ e.symbol = main.best_pair
       /\ (CycleEnds /\ (main'.spot_order = "None" \/ main'.futures_order = "None"))
             => open_positions' = open_positions]_vars

\* C1 witness: a cycle has ended with the spot buy filled and the futures sell
\* failed, and its pair has no position.
C1_Witness ==
    /\ main.pc = "rank" /\ main.best_pair = "AAA"
    /\ main.spot_order = "order" /\ main.futures_order = "None"
    /\ ~HasKey(open_positions, "AAA")

\* C2 (as claimed): opening orders are placed only for a symbol that has no
\* open position, and an entry of open_positions keeps its quantity and
\* initial_spread for as long as its symbol stays in the dictionary.
C2_NeverReopened ==
    [][/\ (main.pc = "btc" /\ main'.pc = "spot")
             => ~HasKey(open_positions, main.best_pair)
       /\ \A k \in Symbols :
             (HasKey(open_positions, k) /\ HasKey(open_positions', k))
                => EntryOf(open_positions', k) = EntryOf(open_positions, k)]_vars

\* C3: open_positions never holds two entries for one symbol.
C3_OneEntryPerSymbol ==
    \A i, j \in 1..Len(open_positions) :
        open_positions[i].symbol = open_positions[j].symbol => i = j

\* C3 witness: the decision loop has registered a position for a symbol while
\* the monitoring loop is closing an older position of that symbol, and a
\* second symbol is open too.
C3_Witness ==
    /\ mon.pc = "close_fut" /\ mon.cur.symbol = "AAA"
    /\ HasKey(open_positions, "AAA")
    /\ EntryOf(open_positions, "AAA") # mon.cur
    /\ Len(open_positions) = 2

\* both prices of the entry's symbol are in the price book
PricesAvailable(e) ==
    prices[e.symbol].spot # None /\ prices[e.symbol].futures # None

\* currentProfit of an entry at the present prices
CurrentProfit(e) ==
    (Val(prices[e.symbol].futures) - Val(prices[e.symbol].spot)) - e.initial_spread

\* the take-profit or the stop-loss condition of the entry at the present
\* prices, with the percentages as hundredths
CloseCondition(e) ==
    /\ PricesAvailable(e)
    /\ \/ 100 * CurrentProfit(e) >= e.initial_spread * TAKE_PROFIT_PERCENTAGE
       \/ 100 * CurrentProfit(e) <= e.initial_spread * STOP_LOSS_PERCENTAGE

\* the entries the monitoring loop examines in its next step: the snapshot of
\* a new pass, or the rest of the snapshot after a close
ToExamine == IF mon.pc = "sleep" THEN open_positions ELSE mon.items

\* a step of the monitoring loop that examines entries
Examines ==
    /\ mon.pc \in {"sleep", "close_fut"}
    /\ mon' # mon \/ last_close' # last_close
    /\ mon'.pc \in {"sleep", "close_spot"}

\* C4: a monitoring step examines the entries of its pass (the snapshot taken
\* at line 129) in order, at the prices of that step; it passes over exactly the entries whose close
\* condition is false and leaves them in open_positions as they are, and
\* starts close_position for the first entry whose close condition holds; a
\* pass started in any reachable state does so; and a symbol leaves
\* open_positions only as the entry the loop is closing.
C4_ClosedIffTriggered ==
    /\ [](mon.pc = "sleep" =>
            ((Scan(open_positions, prices).pc = "close_spot")
               <=> \E e \in EntriesOf(open_positions) : CloseCondition(e)))
    /\ [][/\ (Examines /\ mon'.pc = "close_spot") =>
              \E i \in 1..Len(ToExamine) :
                 /\ mon'.cur = ToExamine[i]
                 /\ mon'.items = SubSeq(ToExamine, i + 1, Len(ToExamine))
                 /\ CloseCondition(ToExamine[i])
                 /\ \A j \in 1..(i - 1) :
                       /\ ~CloseCondition(ToExamine[j])
                       /\ mon.pc = "sleep" => open_positions'[j] = open_positions[j]
          /\ (Examines /\ mon'.pc = "sleep") =>
              \A j \in 1..Len(ToExamine) :
                 /\ ~CloseCondition(ToExamine[j])
                 /\ mon.pc = "sleep" => open_positions' = open_positions
          /\ \A k \in Symbols :
                (HasKey(open_positions, k) /\ ~HasKey(open_positions', k))
                   => mon.pc = "close_fut" /\ mon.cur.symbol = k]_vars

\* C4 witness: a pass has passed over an open position that is inside both
\* thresholds and is closing a later one.
C4_Witness ==
    /\ mon.pc = "close_spot" /\ mon.cur.symbol = "BBB"
    /\ HasKey(open_positions, "AAA")
    /\ open_positions[1].symbol = "AAA"
    /\ ~CloseCondition(open_positions[1])
    /\ last_close = NoClose

\* C5: when close_position returns, whatever its two legs returned, the
\* symbol is no longer in open_positions; and a symbol leaves open_positions
\* only then.
C5_RemovedWhateverTheLegs ==
    [][/\ (mon.pc = "close_fut" /\ mon' # mon /\ mon'.pc # "dead")
             => /\ ~HasKey(open_positions', mon.cur.symbol)
                /\ last_close'.symbol = mon.cur.symbol
       /\ \A k \in Symbols :
             (HasKey(open_positions, k) /\ ~HasKey(open_positions', k))
                => /\ last_close'.symbol = k
                   /\ last_close'.spot \in {"order", "None"}
                   /\ last_close'.futures \in {"order", "None"}]_vars

\* C5 witness: both closing legs came back None and the position is gone.
C5_Witness ==
    /\ last_close = [symbol |-> "AAA", spot |-> "None", futures |-> "None"]
    /\ ~HasKey(open_positions, "AAA")

\* C6: a call of place_spot_order or place_futures_order makes one exchange
\* call per loop index; every attempt before the present one raised an API
\* error; it returns None only after exactly MAX_RETRIES attempts, returns the
\* order at the first attempt that answers, and makes at most MAX_RETRIES
\* attempts; once it has returned, it makes no further attempt.
OrderCall == call.fn \in {"place_spot_order", "place_futures_order"}

C6_ExactlyMaxRetries ==
    /\ [](OrderCall =>
            /\ call.calls <= MAX_RETRIES
            /\ call.st = "running" => call.calls = call.attempt
            /\ (call.st = "returned" /\ call.val = None)
                  => call.calls = MAX_RETRIES /\ call.attempt = MAX_RETRIES - 1
            /\ (call.st = "returned" /\ call.val # None)
                  => call.calls = call.attempt + 1)
    /\ [][(OrderCall /\ call.st # "running")
             => (call'.st = "running" /\ call'.calls = 0)]_vars

\* C6 witness: a spot order call has returned None after five attempts.
C6_Witness ==
    /\ call.fn = "place_spot_order" /\ call.st = "returned"
    /\ call.val = None /\ call.calls = 5

\* C7 (as claimed): no call of get_balance, place_spot_order or
\* place_futures_order ends by raising: every API error and every request
\* exception is retried, and the call returns a value or None.
C7_NoErrorPropagates == call.st # "raised"

\* C8 (as claimed): the decision loop and the monitoring loop are running in
\* every reachable state: no iteration ends either of them.
C8_LoopsKeepRunning == main.pc # "dead" /\ mon.pc # "dead"

\* the potential_profit of a symbol as the ranking reads it (0 when absent)
Ranked(k) == IF prices[k].potential_profit = None THEN 0
             ELSE Val(prices[k].potential_profit)

\* C9: the step that ranks the price book goes on to the balance query only
\* with a symbol whose potential_profit is positive and is the largest over
\* the tracked symbols; with no positive potential_profit it selects nothing
\* and stays at the head of the loop.
C9_BestIsPositiveMaximum ==
    [][main.pc = "rank" =>
         /\ main'.pc \in {"rank", "usdt"}
         /\ main'.pc = "usdt" =>
               /\ main'.best_pair \in Symbols
               /\ prices[main'.best_pair].potential_profit # None
               /\ Ranked(main'.best_pair) > 0
               /\ \A k \in Symbols : Ranked(k) <= Ranked(main'.best_pair)
               /\ main'.spot_order = "unset" /\ main'.futures_order = "unset"
         /\ ((\A k \in Symbols : Ranked(k) <= 0) /\ main' # main)
               => main' = MainIdle]_vars

\* C9 witness: both symbols have a positive potential_profit, the second of
\* the iteration order has the larger one and is the selected pair.
C9_Witness ==
    /\ main.pc = "usdt" /\ main.best_pair = "BBB"
    /\ main.spot_price = Val(prices["BBB"].spot)
    /\ main.futures_price = Val(prices["BBB"].futures)
    /\ Ranked("AAA") > 0 /\ Ranked("BBB") > Ranked("AAA")

\* C10: in every reachable state, an entry of the price book that has a spot
\* and a futures price has the potential_profit of exactly those two prices:
\* SCALE * ((futures - spot) - (spot * 0.00075 + futures * 0.0005)).
C10_ProfitOfCurrentPrices ==
    \A k \in Symbols :
        (prices[k].spot # None /\ prices[k].futures # None) =>
            LET spot == Val(prices[k].spot)
                futures == Val(prices[k].futures)
            IN prices[k].potential_profit =
                 {SCALE * (futures - spot) - (75 * spot + 50 * futures)}

\* C10 witness: the decision loop read AAA's spot price 1000, a later tick
\* has replaced it by 1001, and the entry carries the profit of the two
\* prices now held.
C10_Witness ==
    /\ prices["AAA"].spot = {1001} /\ prices["AAA"].futures = {1062}
    /\ prices["AAA"].potential_profit = {5971825}
    /\ main.pc = "usdt" /\ main.best_pair = "AAA" /\ main.spot_price = 1000

\* both sides of a symbol have been ticked
BothSides(k) == prices[k].spot # None /\ prices[k].futures # None

\* the decision loop is inside a cycle: a pair has been selected and the
\* cooldown has not been reached
InCycle == main.pc \in {"usdt", "btc", "spot", "fut"}

\* C11: a symbol with a tick on one side only has no potential_profit; the
\* ranking selects only a symbol with both sides ticked, and every balance
\* query, order call and position of the decision loop is for such a symbol;
\* a potential_profit appears only in a step after which both sides are
\* present.
C11_OneSidedNotReady ==
    /\ [](\A k \in Symbols : ~BothSides(k) => prices[k].potential_profit = None)
    /\ [](InCycle => main.best_pair \in Symbols /\ BothSides(main.best_pair))
    /\ [](main.req # NoReq => main.req.symbol \in Symbols /\ BothSides(main.req.symbol))
    /\ [](\A e \in EntriesOf(open_positions) : BothSides(e.symbol))
    /\ [][/\ (main.pc = "rank" /\ main'.pc = "usdt") => BothSides(main'.best_pair)
          /\ \A k \in Symbols :
                (prices[k].potential_profit = None
                   /\ prices'[k].potential_profit # None)
                   => (prices'[k].spot # None /\ prices'[k].futures # None)]_vars

\* C11 witness: AAA has a spot price and no futures price, and the decision
\* loop has selected BBB and is placing its futures order.
C11_Witness ==
    /\ prices["AAA"].spot # None /\ prices["AAA"].futures = None
    /\ prices["AAA"].potential_profit = None
    /\ main.pc = "fut" /\ main.best_pair = "BBB"

\* the cycle was deferred in this step: the loop is back at its head with no
\* order call made and open_positions as it was
DeferredNow ==
    /\ main'.pc = "rank" /\ main'.req = NoReq
    /\ main'.spot_order = "unset" /\ main'.futures_order = "unset"
    /\ open_positions' = open_positions

\* C12: when get_balance('USDT') returns None or less than the spot price
\* (0 in particular), or get_balance('BTC') returns None or less than
\* usdt_balance / spot_price, the cycle ends there: no order call, no change
\* of open_positions; an order call is in flight only in a cycle whose two
\* balances were returned and sufficient.
C12_NoTradeWithoutBalances ==
    /\ [][/\ (main.pc = "usdt" /\ main' # main /\ main'.pc # "dead") =>
               IF main'.usdt_balance = None
                    \/ Val(main'.usdt_balance) < main.spot_price
               THEN DeferredNow ELSE main'.pc = "btc" /\ main'.req = NoReq
          /\ (main.pc = "btc" /\ main' # main /\ main'.pc # "dead") =>
               IF main'.btc_balance = None
                    \/ Val(main'.btc_balance) * main.spot_price
                          < Val(main.usdt_balance)
               THEN DeferredNow ELSE main'.pc = "spot"]_vars
    /\ [](main.req # NoReq =>
            /\ main.usdt_balance # None /\ main.btc_balance # None
            /\ Val(main.usdt_balance) >= main.spot_price
            /\ Val(main.btc_balance) * main.spot_price >= Val(main.usdt_balance))

\* C12 witness: a cycle for AAA has ended at the USDT test with balance 0: no
\* order was attempted and nothing is open.
C12_Witness ==
    /\ main.pc = "rank" /\ main.best_pair = "AAA"
    /\ main.usdt_balance = Some(0)
    /\ main.spot_order = "unset" /\ main.futures_order = "unset"
    /\ open_positions = <<>>

\* C13: while the monitoring loop is in close_position for a position, the
\* call in flight is first a spot SELL and then a futures BUY, each for the
\* symbol and the quantity of the position the loop examined; the position is
\* an entry of the pass; and when the spot SELL returns, with an order or with
\* None after its retries, the futures BUY is called next for the same
\* position.
C13_CloseSellsSpotBuysFutures ==
    /\ [](mon.pc = "close_spot" =>
            mon.req = [fn |-> "place_spot_order", symbol |-> mon.cur.symbol,
                       quantity |-> mon.cur.quantity, side |-> "SELL"])
    /\ [](mon.pc = "close_fut" =>
            mon.req = [fn |-> "place_futures_order", symbol |-> mon.cur.symbol,
                       quantity |-> mon.cur.quantity, side |-> "BUY"])
    /\ [][/\ (Examines /\ mon'.pc = "close_spot")
                => mon'.cur \in EntriesOf(ToExamine)
          /\ (mon.pc = "close_spot" /\ mon' # mon /\ mon'.pc # "dead")
                => /\ mon'.pc = "close_fut" /\ mon'.cur = mon.cur
                   /\ mon'.spot_leg \in {"order", "None"}
                   /\ mon'.req.quantity = mon.req.quantity]_vars

\* C13 witness: the spot sell of AAA's position came back None and the
\* futures buy for the position's quantity is in flight.
C13_Witness ==
    /\ mon.pc = "close_fut" /\ mon.spot_leg = "None"
    /\ mon.cur.symbol = "AAA" /\ mon.cur.quantity = <<2000, 1000>>
    /\ mon.req = [fn |-> "place_futures_order", symbol |-> "AAA",
                  quantity |-> <<2000, 1000>>, side |-> "BUY"]

\* C14: a cycle that has passed both balance tests calls the spot BUY for
\* usdt_balance / spot_price of the selected pair; when that call returns,
\* with an order or with None, the futures SELL is called next for the same
\* pair and the same quantity.
C14_BothOpeningLegsAttempted ==
    /\ [](main.pc = "spot" =>
            main.req = [fn |-> "place_spot_order", symbol |-> main.best_pair,
                        quantity |-> <<Val(main.usdt_balance), main.spot_price>>,
                        side |-> "BUY"])
    /\ [](main.pc = "fut" =>
            main.req = [fn |-> "place_futures_order", symbol |-> main.best_pair,
                        quantity |-> <<Val(main.usdt_balance), main.spot_price>>,
                        side |-> "SELL"])
    /\ [][/\ (main.pc = "btc" /\ main' # main /\ main'.pc # "dead"
                 /\ main'.btc_balance # None
                 /\ Val(main'.btc_balance) * main.spot_price
                       >= Val(main.usdt_balance))
                => main'.pc = "spot"
          /\ (main.pc = "spot" /\ main' # main /\ main'.pc # "dead")
                => /\ main'.pc = "fut"
                   /\ main'.spot_order \in {"order", "None"}
                   /\ main'.best_pair = main.best_pair
                   /\ main'.req.quantity = main.req.quantity]_vars

\* C14 witness: the spot buy of a cycle came back None and the futures sell
\* for the same quantity is in flight.
C14_Witness ==
    /\ main.pc = "fut" /\ main.spot_order = "None"
    /\ main.req = [fn |-> "place_futures_order", symbol |-> "AAA",
                   quantity |-> <<2000, 1000>>, side |-> "SELL"]

\* C15: the cycle's spot_price and futures_price are the pair's prices in the
\* price book at the step that selected it; no later step of the cycle and no
\* tick changes them; and an entry put into open_positions has the
\* initial_spread futures_price - spot_price of those two, whatever the price
\* book holds by then.
C15_InitialSpreadOfDecisionTime ==
    [][/\ (main.pc = "rank" /\ main'.pc = "usdt") =>
             /\ main'.spot_price = Val(prices[main'.best_pair].spot)
             /\ main'.futures_price = Val(prices[main'.best_pair].futures)
       /\ (InCycle /\ main'.pc \in {"btc", "spot", "fut"}) =>
             /\ main'.best_pair = main.best_pair
             /\ main'.spot_price = main.spot_price
             /\ main'.futures_price = main.futures_price
       /\ \A e \in EntriesOf(open_positions') \ EntriesOf(open_positions) :
             /\ e.symbol = main.best_pair
             /\ e.initial_spread = main.futures_price - main.spot_price]_vars

\* C15 witness: a cycle selected AAA at 1000 / 1062 and has registered the
\* position with initial_spread 62, while the price book holds 1001 / 1061.
C15_Witness ==
    /\ main.pc = "rank" /\ main.best_pair = "AAA"
    /\ main.spot_order = "order" /\ main.futures_order = "order"
    /\ HasKey(open_positions, "AAA")
    /\ EntryOf(open_positions, "AAA") =
          [symbol |-> "AAA", quantity |-> <<2000, 1000>>, initial_spread |-> 62]
    /\ prices["AAA"].spot = {1001} /\ prices["AAA"].futures = {1061}

\* the entries a step of the monitoring loop examines and passes over: those
\* before the one it starts to close, or all of them when it reaches the sleep
PassedOver ==
    SubSeq(ToExamine, 1,
           IF mon'.pc = "close_spot" THEN Len(ToExamine) - Len(mon'.items) - 1
           ELSE Len(ToExamine))

\* the step starts close_position in the named branch
StartsClose(branch) == Examines /\ mon'.pc = "close_spot" /\ mon'.branch = branch

\* C16 (as claimed): with a stop-loss percentage that is not negative, no
\* position with a positive initial_spread is closed by the stop-loss branch.
C16_StopLossNeverFires ==
    STOP_LOSS_PERCENTAGE >= 0 =>
        ~(/\ mon.pc \in {"close_spot", "close_fut"}
          /\ mon.branch = "sl"
          /\ mon.cur.initial_spread > 0)

\* C16 (amended): a pass that closes nothing found no position at or below
\* currentProfit 0; the stop-loss branch closes a position exactly when the
\* take-profit test failed and currentProfit <= initial_spread *
\* STOP_LOSS_PERCENTAGE / 100; with the percentage 1 and a positive
\* initial_spread that threshold is positive, so no examined position with
\* currentProfit <= 0 is passed over: the stop-loss branch closes it.
C16_StopLossAtOrBelowThreshold ==
    /\ [](mon.pc = "sleep" =>
            (Scan(open_positions, prices).pc = "sleep" =>
                \A e \in EntriesOf(open_positions) :
                    e.initial_spread > 0 => CurrentProfit(e) > 0))
    /\ [][/\ StartsClose("sl") =>
                /\ mon'.profit = CurrentProfit(mon'.cur)
                /\ 100 * mon'.profit <= mon'.cur.initial_spread * STOP_LOSS_PERCENTAGE
                /\ 100 * mon'.profit < mon'.cur.initial_spread * TAKE_PROFIT_PERCENTAGE
          /\ StartsClose("tp") =>
                100 * mon'.profit > mon'.cur.initial_spread * STOP_LOSS_PERCENTAGE
          /\ (Examines /\ mon'.pc = "close_spot" /\ mon'.cur.initial_spread > 0
                /\ CurrentProfit(mon'.cur) <= 0) => mon'.branch = "sl"
          /\ Examines =>
                \A j \in 1..Len(PassedOver) :
                    PassedOver[j].initial_spread > 0
                        => CurrentProfit(PassedOver[j]) > 0]_vars

\* C16 witness: the stop-loss branch is closing a position with initial_spread
\* 62 at a loss of 1.
C16_Witness ==
    /\ mon.pc = "close_spot" /\ mon.branch = "sl"
    /\ mon.cur.initial_spread = 62 /\ mon.profit = -1

\* C17 (as claimed): whenever a symbol leaves open_positions, the entry that
\* leaves is the position the monitoring loop has just closed: it has the
\* quantity and the initial_spread of the position close_position was called
\* for, and the closing orders were for its quantity.
C17_RemovedIsTheOneClosed ==
    [][\A k \in Symbols :
          (HasKey(open_positions, k) /\ ~HasKey(open_positions', k)) =>
              /\ mon.pc = "close_fut" /\ mon.cur.symbol = k
              /\ EntryOf(open_positions, k).quantity = mon.cur.quantity
              /\ EntryOf(open_positions, k).initial_spread = mon.cur.initial_spread
              /\ mon.req.quantity = EntryOf(open_positions, k).quantity]_vars

\* C18: the percentages are the defaults 1 and 2; a pass that starts with a
\* position at currentProfit 0 starts a close_position, and a pass that
\* closes nothing found every position inside the two thresholds; an examined
\* position whose currentProfit is 0 is never passed over: the stop-loss
\* branch starts close_position for it, and when close_position returns its
\* symbol is removed; a position the pass examines and leaves open has
\* initial_spread * 0.01 < currentProfit < initial_spread * 0.02.
C18_ZeroProfitIsClosed ==
    /\ [](STOP_LOSS_PERCENTAGE = 1 /\ TAKE_PROFIT_PERCENTAGE = 2)
    /\ [](mon.pc = "sleep" =>
            /\ (\E e \in EntriesOf(open_positions) : CurrentProfit(e) = 0)
                  => Scan(open_positions, prices).pc = "close_spot"
            /\ Scan(open_positions, prices).pc = "sleep" =>
                  \A e \in EntriesOf(open_positions) :
                      /\ e.initial_spread < 100 * CurrentProfit(e)
                      /\ 100 * CurrentProfit(e) < 2 * e.initial_spread)
    /\ [][/\ Examines =>
               \A j \in 1..Len(PassedOver) :
                   /\ CurrentProfit(PassedOver[j]) # 0
                   /\ PassedOver[j].initial_spread < 100 * CurrentProfit(PassedOver[j])
                   /\ 100 * CurrentProfit(PassedOver[j]) < 2 * PassedOver[j].initial_spread
          /\ (Examines /\ mon'.pc = "close_spot" /\ CurrentProfit(mon'.cur) = 0)
                => mon'.branch = "sl" /\ mon'.profit = 0
          /\ (mon.pc = "close_fut" /\ mon.profit = 0 /\ mon' # mon
                 /\ mon'.pc # "dead")
                => ~HasKey(open_positions', mon.cur.symbol)]_vars

\* C18 witness: AAA's position was registered at 1000 / 1062, the prices are
\* still those, and the pass is closing it by the stop-loss branch at
\* currentProfit 0.
C18_Witness ==
    /\ mon.pc = "close_fut" /\ mon.branch = "sl" /\ mon.profit = 0
    /\ mon.cur = [symbol |-> "AAA", quantity |-> <<2000, 1000>>,
                  initial_spread |-> 62]
    /\ open_positions = <<mon.cur>>
    /\ prices["AAA"].spot = {1000} /\ prices["AAA"].futures = {1062}

\* the monitoring loop is inside close_position
Closing == mon.pc \in {"close_spot", "close_fut"}

\* C19: the position the loop is closing never meets the take-profit and the
\* stop-loss condition together; its symbol is in open_positions until the
\* removal that follows close_position, so that removal finds its key; and
\* when close_position returns, the loop removes the symbol and either
\* sleeps or starts close_position for a later position of the pass, never a
\* second time for the same one.
C19_NeverBothBranches ==
    /\ [](Closing =>
            /\ mon.branch \in {"tp", "sl"}
            /\ ~(/\ 100 * mon.profit >= mon.cur.initial_spread * TAKE_PROFIT_PERCENTAGE
                 /\ 100 * mon.profit <= mon.cur.initial_spread * STOP_LOSS_PERCENTAGE)
            /\ HasKey(open_positions, mon.cur.symbol)
            /\ \A j \in 1..Len(mon.items) : mon.items[j].symbol # mon.cur.symbol)
    /\ [][(mon.pc = "close_fut" /\ mon' # mon /\ mon'.pc # "dead") =>
             /\ ~HasKey(open_positions', mon.cur.symbol)
             /\ mon'.pc \in {"sleep", "close_spot"}
             /\ mon'.pc = "close_spot" =>
                   /\ mon'.cur.symbol # mon.cur.symbol
                   /\ \E j \in 1..Len(mon.items) : mon'.cur = mon.items[j]]_vars

\* C19 witness: the take-profit branch has fired for AAA's position (profit 2
\* on initial_spread 60), its close_position is at the futures leg, and the
\* stop-loss condition is false for it.
C19_Witness ==
    /\ mon.pc = "close_fut" /\ mon.branch = "tp"
    /\ mon.cur.symbol = "AAA" /\ mon.cur.initial_spread = 60 /\ mon.profit = 2
    /\ HasKey(open_positions, "AAA")

\* C20: every entry of open_positions has initial_spread > 0; and an entry
\* put into open_positions has an initial_spread greater than the fee total
\* spot_price * 0.00075 + futures_price * 0.0005 of the prices its cycle
\* selected it at.
C20_InitialSpreadPositive ==
    /\ [](\A e \in EntriesOf(open_positions) : e.initial_spread > 0)
    /\ [][\A e \in EntriesOf(open_positions') \ EntriesOf(open_positions) :
             /\ main.spot_price > 0 /\ main.futures_price > 0
             /\ e.initial_spread > 0
             /\ 100000 * e.initial_spread
                   > 75 * main.spot_price + 50 * main.futures_price]_vars

\* C20 witness: AAA's position was opened with initial_spread 60 and the
\* price book has since moved to a spread of 0.
C20_Witness ==
    /\ HasKey(open_positions, "AAA")
    /\ EntryOf(open_positions, "AAA").initial_spread = 60
    /\ prices["AAA"].spot = {1001} /\ prices["AAA"].futures = {1001}

====
